---- MODULE Spec2Model ----
(***************************************************************************)
(* Keypoint preprocessing pipeline and /predict handler of                 *)
(* PatientMovementAnalysisAPI.                                             *)
(*                                                                         *)
(*   src/src/json_file_keypoint_extraction.py   class KeypointProcessor    *)
(*   src/main.py                                 the /predict handler       *)
(*                                                                         *)
(* Two specifications share the module:                                    *)
(*   Spec      the server: requests run the handler of main.py, one        *)
(*             statement group at a time;                                  *)
(*   SpecProc  a caller of the KeypointProcessor methods on arbitrary      *)
(*             lists, each call one step, results fed to further calls.    *)
(*                                                                         *)
(* Numbers.  Coordinates are integers (JSON integers).  The standardizer's *)
(* results are real numbers of the form  s * sqrt(num / den);  they are    *)
(* kept exactly as the record [sgn, num, den] in lowest terms, with        *)
(* den = 0 for the non-finite values (0/0 = NaN, x/0 = +-Inf).  Floating   *)
(* point rounding is not modelled.                                         *)
(***************************************************************************)
EXTENDS Integers, Sequences, FiniteSets, TLC

\* Frame width: 272 in the source (the literal of lines 58-96), scaled down.
FEATURE_DIM == 2

\* processor = KeypointProcessor(max_seq_length=370) in main.py, scaled down.
SEQ_LEN == 3

\* SpecProc: lists of up to max_seq_length * FEATURE_DIM + ExtraLen values.
ExtraLen == 1

\* Spec: a JSON document holds up to MaxFrames frame elements.
MaxFrames == 2

\* Coordinate and confidence values of the inputs.
Values == {0, 1}

\* Entries of the classifier's output vector (unnormalised weights).
ProbValues == {0, 1}

Requests == {"r1", "r2"}

NumClasses == 4

(***************************************************************************)
(* Helpers                                                                 *)
(***************************************************************************)
Min(a, b) == IF a <= b THEN a ELSE b

Sgn(a) == IF a < 0 THEN -1 ELSE IF a > 0 THEN 1 ELSE 0

RECURSIVE GCD(_, _)
GCD(a, b) == IF b = 0 THEN a ELSE GCD(b, a % b)

SeqsUpTo(S, n) == UNION {[1..k -> S] : k \in 0..n}

\* Python's s[:n] for n >= 0: the first min(n, len(s)) elements, a new list.
PySliceTo(s, n) == SubSeq(s, 1, Min(n, Len(s)))

\* Python's s * k for a list s: k copies end to end.
RECURSIVE PyRepeat(_, _)
PyRepeat(s, k) == IF k <= 0 THEN <<>> ELSE s \o PyRepeat(s, k - 1)

(***************************************************************************)
(* The result of a method call: the returned value, the exception raised   *)
(* ("none" when it returns) and the argument list object as the call       *)
(* leaves it.                                                              *)
(***************************************************************************)
Return(ret, arg) == [ret |-> ret, exc |-> "none", arg |-> arg]

Raise(exc, arg) == [ret |-> <<>>, exc |-> exc, arg |-> arg]

(***************************************************************************)
(* KeypointProcessor.skip_confidence_values                                *)
(***************************************************************************)
\* Variant: the first of each triplet is dropped.
SkipKeepsShifted(index) == (index % 3) # 0

SkipKeeps(index) == (index % 3) # 2

\* [value for index, value in enumerate(keypoints) if ...], from position index on.
RECURSIVE SkipFrom(_, _)
SkipFrom(keypoints, index) ==
    IF index >= Len(keypoints) THEN <<>>
    ELSE (IF SkipKeeps(index) THEN <<keypoints[index + 1]>> ELSE <<>>)
         \o SkipFrom(keypoints, index + 1)

skip_confidence_values(keypoints) == Return(SkipFrom(keypoints, 0), keypoints)

(***************************************************************************)
(* The inline filter of the handler (main.py line 48)                      *)
(***************************************************************************)
InlineKeeps(i) == ((i + 1) % 3) # 0

RECURSIVE InlineFrom(_, _)
InlineFrom(keypoints_list, i) ==
    IF i >= Len(keypoints_list) THEN <<>>
    ELSE (IF InlineKeeps(i) THEN <<keypoints_list[i + 1]>> ELSE <<>>)
         \o InlineFrom(keypoints_list, i + 1)

InlineStrip(keypoints_list) == InlineFrom(keypoints_list, 0)

(***************************************************************************)
(* KeypointProcessor.extend_keypoints                                      *)
(***************************************************************************)
\* Variant: floor division.
RepeatFactorFloor(max_seq_length, num_frames) == max_seq_length \div num_frames

\* Ceiling division; the caller guarantees num_frames # 0.
RepeatFactor(max_seq_length, num_frames) ==
    (max_seq_length + num_frames - 1) \div num_frames

\* Variant: the last n values are kept.
TruncateKeepLast(keypoints, n) ==
    SubSeq(keypoints, Len(keypoints) - Min(n, Len(keypoints)) + 1, Len(keypoints))

Truncate(keypoints, n) == PySliceTo(keypoints, n)

\* Variant: only the whole frames are repeated.
RepeatWholeFrames(keypoints, repeat_factor, n) ==
    PySliceTo(PyRepeat(PySliceTo(keypoints, (Len(keypoints) \div FEATURE_DIM) * FEATURE_DIM),
                       repeat_factor), n)

RepeatAndTrim(keypoints, repeat_factor, n) ==
    PySliceTo(PyRepeat(keypoints, repeat_factor), n)

extend_keypoints(max_seq_length, keypoints) ==
    LET num_frames == Len(keypoints) \div FEATURE_DIM
    IN  IF num_frames < max_seq_length
        THEN IF num_frames = 0
             THEN Raise("ZeroDivisionError", keypoints)
             ELSE Return(RepeatAndTrim(keypoints,
                                       RepeatFactor(max_seq_length, num_frames),
                                       max_seq_length * FEATURE_DIM),
                         keypoints)
        ELSE Return(Truncate(keypoints, max_seq_length * FEATURE_DIM), keypoints)

(***************************************************************************)
(* KeypointProcessor.standardize_keypoints                                 *)
(***************************************************************************)
NaN == [sgn |-> 0, num |-> 0, den |-> 0]

Inf(s) == [sgn |-> s, num |-> 1, den |-> 0]

IsNaN(z) == z.den = 0 /\ z.num = 0

IsFinite(z) == z.den # 0

\* s * sqrt(num / den) with num >= 0, den > 0, in lowest terms.
Root(s, num, den) ==
    IF num = 0 THEN [sgn |-> 0, num |-> 0, den |-> 1]
    ELSE LET g == GCD(num, den) IN [sgn |-> s, num |-> num \div g, den |-> den \div g]

\* Variant: the sample standard deviation (ddof = 1).
StdDivisorSample(rows) == rows - 1

\* np.std's divisor: the number of rows (ddof = 0).
StdDivisor(rows) == rows

\* Floating point division of (dev / rows) by sqrt(sq / (rows^2 * divisor)):
\* dev / rows is value - mean, sq / rows^2 the sum of the squared deviations.
Divide(dev, rows, sq, divisor) ==
    IF sq = 0
    THEN IF dev = 0 THEN NaN ELSE Inf(Sgn(dev))
    ELSE Root(Sgn(dev), dev * dev * divisor, sq)

\* The sum over rows 1..r of column c of the rows x FEATURE_DIM array.
RECURSIVE ColumnTotal(_, _, _)
ColumnTotal(array, c, r) ==
    IF r = 0 THEN 0
    ELSE array[(r - 1) * FEATURE_DIM + c] + ColumnTotal(array, c, r - 1)

Square(a) == a * a

\* A numpy array of n elements: computed once, then read.
Array(f, n) == SubSeq(f, 1, n)

standardize_keypoints(keypoints) ==
    IF Len(keypoints) % FEATURE_DIM # 0
    THEN Raise("ValueError", keypoints)
    ELSE LET rows == Len(keypoints) \div FEATURE_DIM
             size == Len(keypoints)
             ColumnOf(k) == ((k - 1) % FEATURE_DIM) + 1
             \* rows * mean, per column
             sums == Array([c \in 1..FEATURE_DIM |->
                              ColumnTotal(keypoints, c, rows)], FEATURE_DIM)
             \* rows * (keypoints_array - mean), per cell
             devs == Array([k \in 1..size |->
                              rows * keypoints[k] - sums[ColumnOf(k)]], size)
             squares == Array([k \in 1..size |-> Square(devs[k])], size)
             \* rows^2 * the column's sum of (value - mean)^2
             sqsums == Array([c \in 1..FEATURE_DIM |->
                                ColumnTotal(squares, c, rows)], FEATURE_DIM)
         IN  Return(Array([k \in 1..size |->
                             Divide(devs[k], rows, sqsums[ColumnOf(k)],
                                    StdDivisor(rows))], size),
                    keypoints)

(***************************************************************************)
(* KeypointProcessor.build_tensors                                         *)
(***************************************************************************)
NoTensor == [shape |-> <<>>, dtype |-> "none", data |-> <<>>]

\* Variant: values past the shape are dropped.
ReshapeFitsLonger(size, max_seq_length) == size >= 1 * max_seq_length * FEATURE_DIM

\* numpy's reshape(1, max_seq_length, 272): the sizes must agree exactly.
ReshapeFits(size, max_seq_length) == size = 1 * max_seq_length * FEATURE_DIM

\* The values go into the tensor as they are: the rounding of
\* tf.convert_to_tensor(..., dtype=tf.float32) is not modelled.
build_tensors(max_seq_length, keypoints) ==
    IF ~ReshapeFits(Len(keypoints), max_seq_length)
    THEN [ret |-> NoTensor, exc |-> "ValueError", arg |-> keypoints]
    ELSE [ret |-> [shape |-> <<1, max_seq_length, FEATURE_DIM>>,
                   dtype |-> "float32",
                   data  |-> << [r \in 1..max_seq_length |->
                                   [c \in 1..FEATURE_DIM |->
                                      keypoints[(r - 1) * FEATURE_DIM + c]]] >>],
          exc |-> "none", arg |-> keypoints]

(***************************************************************************)
(* np.argmax(prediction, axis=1)[0] and class_mapping                      *)
(***************************************************************************)
\* Variant: the last index of the maximum wins.
IsBetterOrEqual(candidate, best) == candidate >= best

\* The scan keeps the earlier index unless a later entry is strictly larger.
IsBetter(candidate, best) == candidate > best

RECURSIVE ArgMaxScan(_, _, _)
ArgMaxScan(row, i, best) ==
    IF i > Len(row) THEN best
    ELSE ArgMaxScan(row, i + 1, IF IsBetter(row[i], row[best]) THEN i ELSE best)

\* 0-based index, as numpy returns it.
ArgMax(row) == ArgMaxScan(row, 2, 1) - 1

ClassMapping == (0 :> "NORMAL") @@ (1 :> "MILD") @@ (2 :> "MODERATE") @@ (3 :> "SEVERE")

ProbVectors == [1..NumClasses -> ProbValues]

(***************************************************************************)
(* Request documents: the uploaded file's contents.                        *)
(*   json = "invalid"  not JSON (json.loads raises JSONDecodeError)        *)
(*   json = "object"   JSON, but not a list                                *)
(*   json = "list"     a JSON list of the elements in frames               *)
(* A list element is either a dict whose "keypoints" is a list of numbers  *)
(* (kind "frame") or anything else: a scalar, a dict without "keypoints".  *)
(***************************************************************************)
NotAFrame == [kind |-> "other", keypoints |-> <<>>]

Frame(kp) == [kind |-> "frame", keypoints |-> kp]

\* (x, y, confidence) triplets; one frame may carry several landmarks.
FrameSet ==
    {NotAFrame, Frame(<<5>>), Frame(<<1, 2, 9, 3, 4, 9>>)}

Docs ==
    {[json |-> "invalid", frames |-> <<>>], [json |-> "object", frames |-> <<>>]}
    \cup {[json |-> "list", frames |-> f] : f \in SeqsUpTo(FrameSet, MaxFrames)}

NoDoc == [json |-> "none", frames |-> <<>>]

(***************************************************************************)
(* State                                                                   *)
(***************************************************************************)
VARIABLES
    max_seq_length,   \* processor.max_seq_length
    class_mapping,    \* the module-level dict of main.py
    model,            \* the loaded classifier: tensor -> prediction, as far as asked
    req,              \* Spec: the requests, each with the handler's locals
    caller            \* SpecProc: the caller of the processor's methods

vars == <<max_seq_length, class_mapping, model, req, caller>>

NoResponse == [status |-> 0, body |-> "", detail |-> "none"]

IdleRequest ==
    [pc |-> "idle", contents |-> NoDoc, keypoints_list |-> <<>>,
     extended_keypoints |-> <<>>, standardized_keypoints |-> <<>>,
     tensor_data |-> NoTensor, prediction |-> <<>>, ran |-> {},
     response |-> NoResponse]

\* The caller holds a list (data; orig is the list it started with) and
\* remembers its last call: the method, the list passed, that list object
\* after the call, and what the call returned or raised; calls lists the
\* methods called so far.
IdleCaller ==
    [op |-> "none", calls |-> <<>>, orig |-> <<>>, data |-> <<>>,
     arg |-> <<>>, argAfter |-> <<>>, ret |-> <<>>, tensor |-> NoTensor,
     exc |-> "none"]

\* except Exception as e: raise HTTPException(status_code=500, detail=str(e)).
\* The handler's locals are gone; detail names the exception that was caught.
Failed(r, e) ==
    [IdleRequest EXCEPT !.pc = "done", !.contents = req[r].contents,
                        !.ran = req[r].ran,
                        !.response = [status |-> 500, body |-> "", detail |-> e]]

(***************************************************************************)
(* Spec: the handler of POST /predict.  A request's handler advances one   *)
(* statement group at a time and the handlers of different requests        *)
(* interleave freely between them; the event loop's schedules (a switch    *)
(* only at the await of line 26) are among these.  A statement that raises *)
(* is one step with the except clause of lines 59-60.                      *)
(***************************************************************************)
\* contents = await file.read()
Read(r) ==
    /\ req[r].pc = "idle"
    /\ \E doc \in Docs : req' = [req EXCEPT ![r].pc = "read", ![r].contents = doc]
    /\ UNCHANGED <<max_seq_length, class_mapping, model, caller>>

\* Variant: one list shared by the handlers, holding what another request's
\* handler is still working on.
StaleKeypointsList ==
    LET busy == {q \in Requests : req[q].keypoints_list # <<>>}
    IN  IF busy = {} THEN <<>> ELSE req[CHOOSE q \in busy : TRUE].keypoints_list

\* keypoints_list = []
NewKeypointsList == <<>>

\* for frame in json_data: keypoints_list.extend(frame['keypoints']), up to the
\* first element that is no dict with 'keypoints' (at position bad, if any).
RECURSIVE Collect(_, _, _)
Collect(frames, i, keypoints_list) ==
    IF i > Len(frames) THEN [exc |-> "none", keypoints_list |-> keypoints_list]
    ELSE IF frames[i].kind # "frame"
         THEN [exc |-> "HTTPException(400, Invalid frame format in JSON data)",
               keypoints_list |-> keypoints_list]
         ELSE Collect(frames, i + 1, keypoints_list \o frames[i].keypoints)

\* Lines 27-45: json.loads and the structural checks.
ParseOutcome(contents, initial) ==
    IF contents.json = "invalid"
    THEN [exc |-> "HTTPException(400, Invalid JSON file)", keypoints_list |-> <<>>]
    ELSE IF contents.json # "list"
    THEN [exc |-> "HTTPException(400, JSON data should be a list of frames)",
          keypoints_list |-> <<>>]
    ELSE LET got == Collect(contents.frames, 1, initial)
         IN  IF got.exc = "none" /\ got.keypoints_list = <<>>
             THEN [exc |-> "HTTPException(400, No keypoints found in JSON data)",
                   keypoints_list |-> <<>>]
             ELSE got

Parse(r) ==
    /\ req[r].pc = "read"
    /\ LET got == ParseOutcome(req[r].contents, NewKeypointsList)
       IN  req' = [req EXCEPT ![r] =
                     IF got.exc # "none" THEN Failed(r, got.exc)
                     ELSE [@ EXCEPT !.pc = "parsed",
                                    !.keypoints_list = got.keypoints_list]]
    /\ UNCHANGED <<max_seq_length, class_mapping, model, caller>>

\* Line 48: the inline confidence filter rebinds keypoints_list.
Strip(r) ==
    /\ req[r].pc = "parsed"
    /\ req' = [req EXCEPT ![r].pc = "stripped",
                          ![r].keypoints_list = InlineStrip(@)]
    /\ UNCHANGED <<max_seq_length, class_mapping, model, caller>>

\* Line 51.
Extend(r) ==
    /\ req[r].pc = "stripped"
    /\ LET got == extend_keypoints(max_seq_length, req[r].keypoints_list)
       IN  req' = [req EXCEPT ![r] =
                     IF got.exc # "none"
                     THEN [Failed(r, got.exc) EXCEPT !.ran = @ \cup {"extend"}]
                     ELSE [@ EXCEPT !.pc = "extended",
                                    !.ran = @ \cup {"extend"},
                                    !.keypoints_list = got.arg,
                                    !.extended_keypoints = got.ret]]
    /\ UNCHANGED <<max_seq_length, class_mapping, model, caller>>

\* Line 52.
Standardize(r) ==
    /\ req[r].pc = "extended"
    /\ LET got == standardize_keypoints(req[r].extended_keypoints)
       IN  req' = [req EXCEPT ![r] =
                     IF got.exc # "none"
                     THEN [Failed(r, got.exc) EXCEPT !.ran = @ \cup {"standardize"}]
                     ELSE [@ EXCEPT !.pc = "standardized",
                                    !.ran = @ \cup {"standardize"},
                                    !.extended_keypoints = got.arg,
                                    !.standardized_keypoints = got.ret]]
    /\ UNCHANGED <<max_seq_length, class_mapping, model, caller>>

\* Line 53.
Build(r) ==
    /\ req[r].pc = "standardized"
    /\ LET got == build_tensors(max_seq_length, req[r].standardized_keypoints)
       IN  req' = [req EXCEPT ![r] =
                     IF got.exc # "none"
                     THEN [Failed(r, got.exc) EXCEPT !.ran = @ \cup {"build"}]
                     ELSE [@ EXCEPT !.pc = "tensor",
                                    !.ran = @ \cup {"build"},
                                    !.standardized_keypoints = got.arg,
                                    !.tensor_data = got.ret]]
    /\ UNCHANGED <<max_seq_length, class_mapping, model, caller>>

\* Lines 55-57: prediction = model.predict(tensor_data), the arg-max class and
\* the label returned (status 200).  The classifier is a fixed function of the
\* tensor, loaded once (line 9); its value at a tensor is chosen when first
\* asked and the same from then on.  The handler's locals are gone on return;
\* the prediction is kept with the response for reference.
Infer(r) ==
    /\ req[r].pc = "tensor"
    /\ LET t == req[r].tensor_data
       IN  \E p \in ProbVectors :
             /\ t \in DOMAIN model => p = model[t]
             /\ model' = IF t \in DOMAIN model THEN model ELSE model @@ (t :> p)
             /\ LET predicted_class == ArgMax(p)
                IN  req' = [req EXCEPT ![r] =
                              [IdleRequest EXCEPT
                                 !.pc = "done", !.contents = req[r].contents,
                                 !.ran = req[r].ran \cup {"inference"},
                                 !.prediction = p,
                                 !.response = [status |-> 200,
                                               body |-> "prediction: "
                                                        \o class_mapping[predicted_class],
                                               detail |-> "none"]]]
    /\ UNCHANGED <<max_seq_length, class_mapping, caller>>

Init ==
    /\ max_seq_length = SEQ_LEN
    /\ class_mapping = ClassMapping
    /\ model = <<>>
    /\ req = [r \in Requests |-> IdleRequest]
    /\ caller = IdleCaller

Next ==
    \E r \in Requests :
        \/ Read(r)
        \/ Parse(r)
        \/ Strip(r)
        \/ Extend(r)
        \/ Standardize(r)
        \/ Build(r)
        \/ Infer(r)

Spec == Init /\ [][Next]_vars

(***************************************************************************)
(* SpecProc: calls of the KeypointProcessor methods.  The processor is     *)
(* constructed with any max_seq_length in 1..SEQ_LEN, the caller starts    *)
(* with any list of up to max_seq_length * FEATURE_DIM + ExtraLen values   *)
(* (ExtraLen past the length the processor produces), and each step is one *)
(* call on the list the caller holds; the list returned is the one it      *)
(* holds next.                                                             *)
(* The methods are called in the order of the class's documentation        *)
(* (skip, extend, standardize, build), any of them possibly left out.  A   *)
(* call that raises ends the caller's run.                                 *)
(***************************************************************************)
Lists(msl) == SeqsUpTo(Values, msl * FEATURE_DIM + ExtraLen)

StageOf ==
    ("none" :> 0) @@ ("skip_confidence_values" :> 1) @@ ("extend_keypoints" :> 2)
    @@ ("standardize_keypoints" :> 3) @@ ("build_tensors" :> 4)

CanCall(op) == caller.exc = "none" /\ StageOf[caller.op] < StageOf[op]

AfterCall(op, got) ==
    [caller EXCEPT !.op = op, !.calls = Append(@, op),
                   !.arg = caller.data, !.argAfter = got.arg,
                   !.ret = got.ret, !.exc = got.exc,
                   !.data = IF got.exc = "none" THEN got.ret ELSE got.arg]

CallSkip ==
    /\ CanCall("skip_confidence_values")
    /\ caller' = AfterCall("skip_confidence_values",
                           skip_confidence_values(caller.data))
    /\ UNCHANGED <<max_seq_length, class_mapping, model, req>>

CallExtend ==
    /\ CanCall("extend_keypoints")
    /\ caller' = AfterCall("extend_keypoints",
                           extend_keypoints(max_seq_length, caller.data))
    /\ UNCHANGED <<max_seq_length, class_mapping, model, req>>

CallStandardize ==
    /\ CanCall("standardize_keypoints")
    /\ caller' = AfterCall("standardize_keypoints",
                           standardize_keypoints(caller.data))
    /\ UNCHANGED <<max_seq_length, class_mapping, model, req>>

CallBuild ==
    /\ CanCall("build_tensors")
    /\ LET got == build_tensors(max_seq_length, caller.data)
       IN  caller' = [AfterCall("build_tensors", [got EXCEPT !.ret = <<>>])
                        EXCEPT !.tensor = got.ret, !.data = got.arg]
    /\ UNCHANGED <<max_seq_length, class_mapping, model, req>>

InitProc ==
    /\ max_seq_length \in 1..SEQ_LEN
    /\ class_mapping = ClassMapping
    /\ model = <<>>
    /\ req = [r \in Requests |-> IdleRequest]
    /\ \E s \in Lists(max_seq_length) :
          caller = [IdleCaller EXCEPT !.orig = s, !.data = s]

NextProc == CallSkip \/ CallExtend \/ CallStandardize \/ CallBuild

SpecProc == InitProc /\ [][NextProc]_vars

(***************************************************************************)
(* Claims about the processor's methods, checked under SpecProc.           *)
(***************************************************************************)
NumFramesOf(list) == Len(list) \div FEATURE_DIM

TargetLen == max_seq_length * FEATURE_DIM

Extended == caller.op = "extend_keypoints"

\* C1: for every stream with num_frames >= 1 and every max_seq_length >= 1,
\* extend_keypoints returns (raises nothing) exactly
\* max_seq_length * FEATURE_DIM values, in the repeat branch and in the
\* truncate branch, whether or not len(stream) is a multiple of FEATURE_DIM.
C1_ExtendLength ==
    (Extended /\ NumFramesOf(caller.arg) >= 1)
        => /\ caller.exc = "none"
           /\ Len(caller.ret) = TargetLen

\* The repeat branch on a stream whose length is no multiple of FEATURE_DIM.
C1_Witness ==
    /\ Extended
    /\ NumFramesOf(caller.arg) >= 1
    /\ NumFramesOf(caller.arg) < max_seq_length
    /\ Len(caller.arg) % FEATURE_DIM # 0
    /\ Len(caller.ret) = TargetLen

\* C4: truncation.  For num_frames >= max_seq_length the output is the first
\* max_seq_length * FEATURE_DIM values of the input, element for element, and
\* the input list is as it was.
C4_Truncation ==
    (Extended /\ NumFramesOf(caller.arg) >= max_seq_length)
        => /\ caller.exc = "none"
           /\ Len(caller.ret) = TargetLen
           /\ \A i \in 1..TargetLen : caller.ret[i] = caller.arg[i]
           /\ caller.argAfter = caller.arg

\* A stream longer than the target whose cut-off tail differs from its head.
C4_Witness ==
    /\ Extended
    /\ Len(caller.arg) > TargetLen
    /\ caller.arg[Len(caller.arg)] # caller.arg[Len(caller.arg) - TargetLen]
    /\ Len(caller.ret) = TargetLen
    /\ caller.argAfter = caller.arg

\* C5: repetition.  For 1 <= num_frames < max_seq_length every output index i
\* in [0, max_seq_length * FEATURE_DIM) holds stream[i mod len(stream)].
C5_Repetition ==
    (Extended /\ NumFramesOf(caller.arg) >= 1
              /\ NumFramesOf(caller.arg) < max_seq_length)
        => /\ caller.exc = "none"
           /\ Len(caller.ret) = TargetLen
           /\ \A i \in 0..(TargetLen - 1) :
                  caller.ret[i + 1] = caller.arg[(i % Len(caller.arg)) + 1]

\* A stream with a trailing partial frame, whose last value differs from the
\* value the next copy starts with, repeated past its end.
C5_Witness ==
    /\ Extended
    /\ NumFramesOf(caller.arg) >= 1
    /\ NumFramesOf(caller.arg) < max_seq_length
    /\ Len(caller.arg) % FEATURE_DIM # 0
    /\ caller.exc = "none"
    /\ caller.arg[Len(caller.arg)] # caller.arg[1]
    /\ caller.ret[Len(caller.arg)] = caller.arg[Len(caller.arg)]
    /\ caller.ret[Len(caller.arg) + 1] = caller.arg[1]

\* The k-th value kept (k from 0) of a stream of (x, y, confidence) triplets
\* sits at 0-indexed position 3 * (k div 2) + k mod 2.
KeptPosition(k) == 3 * (k \div 2) + (k % 2)

\* C6: confidence stripping keeps exactly the values at 0-indexed positions
\* not congruent to 2 mod 3, in order; 3n values give exactly 2n; a length
\* that is no multiple of 3 is taken by the same rule without error; and the
\* handler's inline filter gives the same list.
C6_ConfidenceStripping ==
    caller.op = "skip_confidence_values"
        => /\ caller.exc = "none"
           /\ Len(caller.ret) = Len(caller.arg) - (Len(caller.arg) \div 3)
           /\ (Len(caller.arg) % 3 = 0 => 3 * Len(caller.ret) = 2 * Len(caller.arg))
           /\ \A k \in 0..(Len(caller.ret) - 1) :
                  /\ KeptPosition(k) % 3 # 2
                  /\ caller.ret[k + 1] = caller.arg[KeptPosition(k) + 1]
           /\ caller.ret = InlineStrip(caller.arg)

\* A stream whose length is no multiple of 3 and whose dropped values differ
\* from their neighbours.
C6_Witness ==
    /\ caller.op = "skip_confidence_values"
    /\ Len(caller.arg) > 3
    /\ Len(caller.arg) % 3 # 0
    /\ caller.arg[3] # caller.arg[2]
    /\ caller.arg[3] # caller.arg[4]
    /\ Len(caller.ret) = Len(caller.arg) - 1

\* C7: build_tensors gives shape (1, max_seq_length, FEATURE_DIM) in row-major
\* order when the input has exactly max_seq_length * FEATURE_DIM values, and
\* for any other length raises the shape error and gives no tensor; so every
\* tensor there is has that shape.
C7_BuildTensors ==
    /\ caller.op = "build_tensors" =>
          IF Len(caller.arg) = TargetLen
          THEN /\ caller.exc = "none"
               /\ caller.tensor.shape = <<1, max_seq_length, FEATURE_DIM>>
               /\ Len(caller.tensor.data) = 1
               /\ Len(caller.tensor.data[1]) = max_seq_length
               /\ \A r \in 1..max_seq_length :
                     /\ Len(caller.tensor.data[1][r]) = FEATURE_DIM
                     /\ \A c \in 1..FEATURE_DIM :
                           caller.tensor.data[1][r][c]
                               = caller.arg[(r - 1) * FEATURE_DIM + c]
          ELSE /\ caller.exc = "ValueError"
               /\ caller.tensor = NoTensor
    /\ caller.tensor # NoTensor =>
          caller.tensor.shape = <<1, max_seq_length, FEATURE_DIM>>

\* A list one value short of a whole number of frames is refused.
C7_Witness ==
    /\ caller.op = "build_tensors"
    /\ Len(caller.arg) > 0
    /\ Len(caller.arg) < TargetLen
    /\ caller.exc = "ValueError"
    /\ caller.tensor = NoTensor

(***************************************************************************)
(* C9.  Column statistics of the standardizer's input, from the claim's    *)
(* words: with R rows, S the column sum and Q the column's sum of squares, *)
(* mean = S / R and the population variance is Q / R - (S / R)^2, so       *)
(*   (value - mean)^2 / variance = (R * value - S)^2 / (R * Q - S^2).      *)
(***************************************************************************)
RowsOf(list) == Len(list) \div FEATURE_DIM

ColumnValue(list, r, c) == list[(r - 1) * FEATURE_DIM + c]

RECURSIVE ColumnSum(_, _, _)
ColumnSum(list, c, r) ==
    IF r = 0 THEN 0 ELSE ColumnValue(list, r, c) + ColumnSum(list, c, r - 1)

RECURSIVE ColumnSquares(_, _, _)
ColumnSquares(list, c, r) ==
    IF r = 0 THEN 0
    ELSE ColumnValue(list, r, c) * ColumnValue(list, r, c)
         + ColumnSquares(list, c, r - 1)

ColumnIsConstant(list, c) ==
    \A r \in 1..RowsOf(list) : ColumnValue(list, r, c) = ColumnValue(list, 1, c)

\* z = (value - mean) / population standard deviation, for the cell (r, c).
IsStandardScore(z, list, r, c) ==
    LET R == RowsOf(list)
        S == ColumnSum(list, c, R)
        Q == ColumnSquares(list, c, R)
        d == R * ColumnValue(list, r, c) - S
    IN  /\ IsFinite(z)
        /\ z.sgn = Sgn(d)
        /\ z.num * (R * Q - S * S) = z.den * d * d

Standardized == caller.op = "standardize_keypoints" /\ caller.exc = "none"

AllZeroFrame == [k \in 1..FEATURE_DIM |-> 0]

C9_AllZeroFrameTensor ==
    /\ caller.orig = AllZeroFrame
    /\ caller.calls = <<"extend_keypoints", "standardize_keypoints", "build_tensors">>
    /\ caller.tensor # NoTensor
    /\ IsNaN(caller.tensor.data[1][max_seq_length][FEATURE_DIM])

(***************************************************************************)
(* Claims about the handler, checked under Spec.                           *)
(***************************************************************************)
Done(r) == req[r].pc = "done"

RECURSIVE Concatenation(_, _)
Concatenation(frames, n) ==
    IF n = 0 THEN <<>> ELSE Concatenation(frames, n - 1) \o frames[n].keypoints

\* Not a list, an element that is no object with "keypoints", or no keypoints.
Malformed(contents) ==
    \/ contents.json # "list"
    \/ \E i \in 1..Len(contents.frames) : contents.frames[i].kind # "frame"
    \/ Concatenation(contents.frames, Len(contents.frames)) = <<>>

\* The 0-indexed positions not congruent to 2 mod 3, in order.
CoordinateStream(contents) ==
    LET raw == Concatenation(contents.frames, Len(contents.frames))
    IN  [k \in 1..(Len(raw) - (Len(raw) \div 3)) |-> raw[KeptPosition(k - 1) + 1]]

\* C2: a request whose confidence-stripped stream holds fewer than FEATURE_DIM
\* values ends in the explicit SequenceTooShort validation error, not in the
\* division by zero of the repeat-factor computation.
C2_SequenceTooShort ==
    \A r \in Requests :
        (/\ Done(r)
         /\ ~Malformed(req[r].contents)
         /\ Len(CoordinateStream(req[r].contents)) < FEATURE_DIM)
            => /\ req[r].response.detail = "SequenceTooShort"
               /\ req[r].response.detail # "ZeroDivisionError"

\* C3: every structurally malformed request ends with status 400 and none of
\* the stages extend, standardize, build, inference ran for it.
C3_MalformedIs400 ==
    \A r \in Requests :
        (Done(r) /\ Malformed(req[r].contents))
            => /\ req[r].response.status = 400
               /\ req[r].ran = {}

\* What does hold of a malformed request: no stage ran.
MalformedRunsNoStage ==
    \A r \in Requests : Malformed(req[r].contents) => req[r].ran = {}

IsMaximum(row, k) == \A j \in 1..Len(row) : row[j] <= row[k]

\* The lowest 0-based index holding the maximum.
LowestMaximum(row) ==
    (CHOOSE k \in 1..Len(row) :
        IsMaximum(row, k) /\ \A j \in 1..(k - 1) : row[j] < row[k]) - 1

LabelOf(class) ==
    CASE class = 0 -> "NORMAL"
      [] class = 1 -> "MILD"
      [] class = 2 -> "MODERATE"
      [] class = 3 -> "SEVERE"

\* C8: the predicted class is the index of the maximum of the 4-entry
\* vector, the lowest such index on a tie, and the label returned is that of
\* 0: NORMAL, 1: MILD, 2: MODERATE, 3: SEVERE.
C8_ArgMaxLabel ==
    \A r \in Requests :
        (Done(r) /\ req[r].response.status = 200)
            => /\ Len(req[r].prediction) = 4
               /\ req[r].response.body
                    = "prediction: " \o LabelOf(LowestMaximum(req[r].prediction))

\* All four entries equal: the class is 0, NORMAL.
C8_Witness ==
    \E r \in Requests :
        /\ Done(r)
        /\ req[r].response.status = 200
        /\ \A j \in 1..4 : req[r].prediction[j] = req[r].prediction[1]
        /\ req[r].response.body = "prediction: NORMAL"

(***************************************************************************)
(* C10.  A request processed alone: the handler's statements in order on   *)
(* the request's own contents, with the processor as constructed.          *)
(***************************************************************************)
AloneRun(contents) ==
    LET parsed       == ParseOutcome(contents, <<>>)
        stripped     == InlineStrip(parsed.keypoints_list)
        extended     == extend_keypoints(SEQ_LEN, stripped)
        standardized == standardize_keypoints(extended.ret)
        tensor       == build_tensors(SEQ_LEN, standardized.ret)
        error        == IF parsed.exc # "none" THEN parsed.exc
                        ELSE IF extended.exc # "none" THEN extended.exc
                        ELSE IF standardized.exc # "none" THEN standardized.exc
                        ELSE tensor.exc
    IN  [keypoints_list         |-> parsed.keypoints_list,
         stripped               |-> stripped,
         extended_keypoints     |-> extended.ret,
         standardized_keypoints |-> standardized.ret,
         tensor_data            |-> tensor.ret,
         error                  |-> error]

AloneResponse(alone) ==
    IF alone.error # "none"
    THEN [status |-> 500, body |-> "", detail |-> alone.error]
    ELSE [status |-> 200,
          body |-> "prediction: " \o LabelOf(ArgMax(model[alone.tensor_data])),
          detail |-> "none"]

\* The handler's buffers at each position are those of the request alone (a
\* list handed to a stage is afterwards what it was before), and so is the
\* response.
AsAlone(r) ==
    LET alone == AloneRun(req[r].contents)
        at == req[r].pc
    IN  /\ at = "parsed" => req[r].keypoints_list = alone.keypoints_list
        /\ at \in {"stripped", "extended"} =>
              req[r].keypoints_list = alone.stripped
        /\ at \in {"extended", "standardized"} =>
              req[r].extended_keypoints = alone.extended_keypoints
        /\ at \in {"standardized", "tensor"} =>
              req[r].standardized_keypoints = alone.standardized_keypoints
        /\ at = "tensor" => req[r].tensor_data = alone.tensor_data
        /\ at = "done" => req[r].response = AloneResponse(alone)

\* C10: whatever the requests and their interleaving, max_seq_length is the
\* value set at construction, class_mapping is unchanged, no stage changes
\* the list it is given, and each request's outcome is the one the same
\* request has when processed alone (so equal requests have equal outcomes).
C10_Stateless ==
    /\ max_seq_length = SEQ_LEN
    /\ \A class \in 0..3 : class_mapping[class] = LabelOf(class)
    /\ DOMAIN class_mapping = 0..3
    /\ \A r \in Requests : req[r].pc \notin {"idle", "read"} => AsAlone(r)
    /\ \A r, q \in Requests :
          (Done(r) /\ Done(q) /\ req[r].contents = req[q].contents)
              => req[r].response = req[q].response

\* One request answered 200 while another, with other contents, is between
\* its extend and standardize stages.
C10_Witness ==
    \E r, q \in Requests :
        /\ Done(r)
        /\ req[r].response.status = 200
        /\ req[q].pc = "extended"
        /\ req[q].contents # req[r].contents

====
